---- MODULE Spec2Model ----
(***************************************************************************)
(* Model of mortgage.py: the Mortgage dataclass, its rate / cost / payment *)
(* formulas, the payment_schedule generator and total_cost.                *)
(*                                                                         *)
(* Quantities are modelled by their exact values: a magnitude is a         *)
(* rational <<n, d>> in lowest terms with d > 0, money in dollars, time in *)
(* months, rates in percent per year.  The unit conversions the code asks  *)
(* pint for (percent/year -> percent/month, percent -> dimensionless) are  *)
(* modelled by the scaling they perform.  Rounding of binary floating      *)
(* point is not modelled: every formula is evaluated exactly.              *)
(*                                                                         *)
(* A behaviour holds two generators, both calls of payment_schedule on the *)
(* same loan and n_points: generator 1 with any strategy, generator 2 the  *)
(* baseline call (no strategy, or a strategy returning zero).  The caller  *)
(* resumes them one element at a time, in any order.  total_cost is a      *)
(* synchronous call with generator 1's arguments: it drains a generator of *)
(* its own with list() and returns, raises, or never comes back.           *)
(***************************************************************************)
EXTENDS Integers, Sequences, FiniteSets, TLC

VARIABLES loan, n_points, strategy, pc, remaining, base, out, tcpc, tcResult

vars == <<loan, n_points, strategy, pc, remaining, base, out, tcpc, tcResult>>

(***************************************************************************)
(* Bounds of the model.                                                    *)
(***************************************************************************)
MaxLoan == 2
MaxMonths == 3
MaxPoints == 1

\* A generator is followed for at most StepCap yields; a schedule that has
\* not ended by then is followed no further.
StepCap == MaxMonths + 1

(***************************************************************************)
(* Exact arithmetic on magnitudes.                                         *)
(***************************************************************************)
\* Each operation is a function of the pair of its operands, so that an
\* operand is evaluated once, to a value, before the operation is applied.
Rat ==
    Int \X Int

GcdOf[p \in Nat \X Nat] ==
    IF p[2] = 0 THEN p[1] ELSE GcdOf[<<p[2], p[1] % p[2]>>]

GCD(a, b) ==
    GcdOf[<<a, b>>]

Abs(a) ==
    IF a < 0 THEN -a ELSE a

NormOf[p \in Rat] ==
    LET g == GCD(Abs(p[1]), Abs(p[2]))
        s == IF p[2] < 0 THEN -1 ELSE 1
    IN  <<(s * p[1]) \div g, (s * p[2]) \div g>>

Norm(n, d) ==
    NormOf[<<n, d>>]

Whole(k) ==
    <<k, 1>>

Zero ==
    Whole(0)

AddOf[p \in Rat \X Rat] ==
    Norm(p[1][1] * p[2][2] + p[2][1] * p[1][2], p[1][2] * p[2][2])

SubOf[p \in Rat \X Rat] ==
    Norm(p[1][1] * p[2][2] - p[2][1] * p[1][2], p[1][2] * p[2][2])

MulOf[p \in Rat \X Rat] ==
    Norm(p[1][1] * p[2][1], p[1][2] * p[2][2])

DivOf[p \in Rat \X Rat] ==
    Norm(p[1][1] * p[2][2], p[1][2] * p[2][1])

LtOf[p \in Rat \X Rat] ==
    p[1][1] * p[2][2] < p[2][1] * p[1][2]

LeOf[p \in Rat \X Rat] ==
    p[1][1] * p[2][2] <= p[2][1] * p[1][2]

RAdd(x, y) ==
    AddOf[<<x, y>>]

RSub(x, y) ==
    SubOf[<<x, y>>]

RMul(x, y) ==
    MulOf[<<x, y>>]

RDiv(x, y) ==
    DivOf[<<x, y>>]

RLt(x, y) ==
    LtOf[<<x, y>>]

RLe(x, y) ==
    LeOf[<<x, y>>]

RECURSIVE RPow(_, _)
RPow(x, k) ==
    IF k = 0 THEN Whole(1) ELSE RMul(x, RPow(x, k - 1))

Ceil(x) ==
    -((-x[1]) \div x[2])

RECURSIVE RSum(_)
RSum(s) ==
    IF s = <<>> THEN Zero ELSE RAdd(Head(s), RSum(Tail(s)))

(***************************************************************************)
(* Unit conversions performed by pint.                                     *)
(***************************************************************************)
MonthsPerYear == 12
PercentScale == 100

\* rate.to('percent / month')
ToPercentPerMonth(rate) ==
    RDiv(rate, Whole(MonthsPerYear))

\* percent -> dimensionless
ToDimensionless(pct) ==
    RDiv(pct, Whole(PercentScale))

(***************************************************************************)
(* The Mortgage dataclass and its methods.                                 *)
(***************************************************************************)
effective_rate(self, np) ==
    RSub(self.base_rate, RMul(self.rate_reduction_per_point, np))

actual_closing_costs(self, np) ==
    RAdd(self.base_closing_costs,
         ToDimensionless(RMul(RMul(self.cost_per_point, self.loan_amount), np)))

down_payment(self) ==
    RSub(self.home_value, self.loan_amount)

n_payments(self) ==
    Ceil(self.duration)

\* monthly rate as a dimensionless fraction per month
monthly_rate(self, np) ==
    ToDimensionless(ToPercentPerMonth(effective_rate(self, np)))

compounding(self, np) ==
    RPow(RAdd(Whole(1), monthly_rate(self, np)), n_payments(self))

\* base_payment divides by compounding - 1: ZeroDivisionError when it is 0
BasePaymentRaises(self, np) ==
    compounding(self, np) = Whole(1)

BasePaymentInterestOnly(self, np) ==
    RMul(self.loan_amount, monthly_rate(self, np))

base_payment(self, np) ==
    RDiv(RMul(RMul(self.loan_amount, monthly_rate(self, np)), compounding(self, np)),
         RSub(compounding(self, np), Whole(1)))

(***************************************************************************)
(* payment_schedule: the generator body.                                   *)
(***************************************************************************)
\* the 10 cent cut-off of the loop, 0.1 dollars
Threshold ==
    <<1, 10>>

\* loop test:  remaining.loan_amount > Q(0.1, 'dollars')
LoopTest(rem) ==
    RLt(Threshold, rem.loan_amount)

\* a caller's strategy is None, a constant amount per month, or a fraction
\* of the remaining balance per month
NoStrategy ==
    [kind |-> "none", amount |-> Zero]

ConstStrategy(q) ==
    [kind |-> "const", amount |-> q]

FractionStrategy(q) ==
    [kind |-> "fraction", amount |-> q]

DefaultStrategyOneDollar(rem) ==
    Whole(1)

\* lambda mortgage: Q(0, 'dollars / month')
DefaultStrategy(rem) ==
    Zero

\* overpayment_strategy(remaining) * Q(1, 'month')
overpayment_strategy(s, rem) ==
    CASE s.kind = "none" -> DefaultStrategy(rem)
      [] s.kind = "const" -> s.amount
      [] s.kind = "fraction" -> RMul(s.amount, rem.loan_amount)

\* interest = remaining.loan_amount * 1 month * effective_rate in percent / month
Interest(self, np, rem) ==
    RMul(rem.loan_amount, monthly_rate(self, np))

PaymentMinusExtra(b, extra) ==
    RSub(b, extra)

\* payment = base + overpayment_strategy(remaining) * 1 month
Payment(b, extra) ==
    RAdd(b, extra)

PrincipalIgnoringInterest(payment, interest) ==
    payment

\* principal = payment - interest
Principal(payment, interest) ==
    RSub(payment, interest)

ClampPaymentToBalance(payment, principal, interest, rem) ==
    IF RLt(rem.loan_amount, principal)
    THEN RAdd(rem.loan_amount, interest)
    ELSE payment

\* if principal > remaining.loan_amount: payment = principal + interest
ClampedPayment(payment, principal, interest, rem) ==
    IF RLt(rem.loan_amount, principal)
    THEN RAdd(principal, interest)
    ELSE payment

ReplaceAlsoHomeValue(self, amount) ==
    [self EXCEPT !.loan_amount = amount, !.home_value = amount]

\* dataclasses.replace(self, loan_amount=...)
Replace(self, amount) ==
    [self EXCEPT !.loan_amount = amount]

\* one pass through the loop body: the pair the generator yields
LoopBody(self, np, s, b, rem) ==
    LET interest == Interest(self, np, rem)
        payment == Payment(b, overpayment_strategy(s, rem))
        principal == Principal(payment, interest)
    IN  [state |-> Replace(self, RSub(rem.loan_amount, principal)),
         payment |-> ClampedPayment(payment, principal, interest, rem)]

\* list(payment_schedule(...)) from the state rem on: the items collected
\* and whether the generator has ended within StepCap yields
RECURSIVE Drain(_, _, _, _, _, _)
Drain(self, np, s, b, rem, acc) ==
    IF ~LoopTest(rem) THEN [complete |-> TRUE, items |-> acc]
    ELSE IF Len(acc) >= StepCap THEN [complete |-> FALSE, items |-> acc]
    ELSE LET item == LoopBody(self, np, s, b, rem)
         IN  Drain(self, np, s, b, item.state, Append(acc, item))

\* list(self.payment_schedule(n_points, overpayment_strategy))
ScheduleList(self, np, s) ==
    Drain(self, np, s, base_payment(self, np), self, <<>>)

(***************************************************************************)
(* total_cost: the value returned once list(payment_schedule) is complete. *)
(***************************************************************************)
Payments(schedule) ==
    [k \in 1..Len(schedule) |-> schedule[k].payment]

TotalCostWithoutClosing(self, np, schedule) ==
    <<RAdd(down_payment(self), RSum(Payments(schedule))), Len(schedule)>>

TotalCostValue(self, np, schedule) ==
    <<RAdd(RAdd(down_payment(self), actual_closing_costs(self, np)),
           RSum(Payments(schedule))),
      Len(schedule)>>

(***************************************************************************)
(* Inputs: the loans, point counts and strategies of the model.            *)
(***************************************************************************)
LoanAmounts ==
    {Zero, Threshold} \cup {Whole(k) : k \in 1..MaxLoan}

HomeValues ==
    {Whole(MaxLoan + 1)}

\* durations in months: none, and half a month short of 1..MaxMonths months
\* (n_payments rounds up)
Durations ==
    {Zero} \cup {Norm(2 * k - 1, 2) : k \in 1..MaxMonths}

\* percent per year: 50 % and 100 % per month
BaseRates ==
    {Whole(600), Whole(1200)}

\* percent per year and point
RateReductions ==
    {Whole(600)}

ClosingCosts ==
    {Whole(1)}

\* percent of the loan amount per point
CostsPerPoint ==
    {Whole(50)}

Mortgages ==
    [loan_amount : LoanAmounts, home_value : HomeValues, duration : Durations,
     base_rate : BaseRates, base_closing_costs : ClosingCosts,
     cost_per_point : CostsPerPoint, rate_reduction_per_point : RateReductions]

Points ==
    {Whole(k) : k \in 0..MaxPoints}

Baselines ==
    {NoStrategy, ConstStrategy(Zero)}

Strategies ==
    Baselines \cup {ConstStrategy(<<-1, 1>>), ConstStrategy(<<1, 4>>),
                    ConstStrategy(Whole(1)), FractionStrategy(<<1, 2>>)}

Gens == {1, 2}

(***************************************************************************)
(* State machine.                                                          *)
(*   pc[g]: "created" (not started), "yielded" (suspended at the yield),   *)
(*          "done" (StopIteration), "raised" (ZeroDivisionError)           *)
(*   out[g]: the pairs the consumer of generator g has received            *)
(*   tcpc: "idle", "returned", "raised", "listing" (list() still running   *)
(*          after StepCap items)                                           *)
(***************************************************************************)
Init ==
    /\ loan \in Mortgages
    /\ n_points \in Points
    /\ \E s \in Strategies, b \in Baselines : strategy = <<s, b>>
    /\ pc = [g \in Gens |-> "created"]
    /\ remaining = [g \in Gens |-> loan]
    /\ base = [g \in Gens |-> Zero]
    /\ out = [g \in Gens |-> <<>>]
    /\ tcpc = "idle"
    /\ tcResult = <<Zero, 0>>

\* base as the generator holds it after line 62 (computed at the first next())
BaseAt(g) ==
    IF pc[g] = "created" THEN base_payment(loan, n_points) ELSE base[g]

\* first next(): base_payment raises ZeroDivisionError
NextRaise(g) ==
    /\ pc[g] = "created"
    /\ BasePaymentRaises(loan, n_points)
    /\ pc' = [pc EXCEPT ![g] = "raised"]
    /\ UNCHANGED <<loan, n_points, strategy, remaining, base, out, tcpc, tcResult>>

\* next(): the loop test holds, the body runs up to the yield
NextYield(g) ==
    /\ pc[g] \in {"created", "yielded"}
    /\ pc[g] = "created" => ~BasePaymentRaises(loan, n_points)
    /\ LoopTest(remaining[g])
    /\ Len(out[g]) < StepCap
    /\ \E b \in {BaseAt(g)} :
          /\ \E item \in {LoopBody(loan, n_points, strategy[g], b, remaining[g])} :
                /\ remaining' = [remaining EXCEPT ![g] = item.state]
                /\ out' = [out EXCEPT ![g] = Append(@, item)]
          /\ base' = [base EXCEPT ![g] = b]
    /\ pc' = [pc EXCEPT ![g] = "yielded"]
    /\ UNCHANGED <<loan, n_points, strategy, tcpc, tcResult>>

\* next(): the loop test fails, the generator returns (StopIteration)
NextStop(g) ==
    /\ pc[g] \in {"created", "yielded"}
    /\ pc[g] = "created" => ~BasePaymentRaises(loan, n_points)
    /\ ~LoopTest(remaining[g])
    /\ base' = [base EXCEPT ![g] = BaseAt(g)]
    /\ pc' = [pc EXCEPT ![g] = "done"]
    /\ UNCHANGED <<loan, n_points, strategy, remaining, out, tcpc, tcResult>>

\* total_cost(n_points, strategy[1]): the schedule ends, the sums are returned
TotalCostReturn ==
    /\ tcpc = "idle"
    /\ ~BasePaymentRaises(loan, n_points)
    /\ ScheduleList(loan, n_points, strategy[1]).complete
    /\ tcResult' = TotalCostValue(loan, n_points,
                                  ScheduleList(loan, n_points, strategy[1]).items)
    /\ tcpc' = "returned"
    /\ UNCHANGED <<loan, n_points, strategy, pc, remaining, base, out>>

\* total_cost: base_payment raises inside list()
TotalCostRaise ==
    /\ tcpc = "idle"
    /\ BasePaymentRaises(loan, n_points)
    /\ tcpc' = "raised"
    /\ UNCHANGED <<loan, n_points, strategy, pc, remaining, base, out, tcResult>>

\* total_cost: list() is still collecting after StepCap items
TotalCostListing ==
    /\ tcpc = "idle"
    /\ ~BasePaymentRaises(loan, n_points)
    /\ ~ScheduleList(loan, n_points, strategy[1]).complete
    /\ tcpc' = "listing"
    /\ UNCHANGED <<loan, n_points, strategy, pc, remaining, base, out, tcResult>>

Next ==
    \/ \E g \in Gens : NextRaise(g)
    \/ \E g \in Gens : NextYield(g)
    \/ \E g \in Gens : NextStop(g)
    \/ TotalCostReturn
    \/ TotalCostRaise
    \/ TotalCostListing

Spec ==
    Init /\ [][Next]_vars

\* every consumer keeps asking for the next element, as list() does
FairSpec ==
    /\ Spec
    /\ \A g \in Gens : WF_vars(NextRaise(g) \/ NextYield(g) \/ NextStop(g))

(***************************************************************************)
(* Vocabulary of the properties, read off the history out[g].              *)
(***************************************************************************)
PositiveRate ==
    RLt(Zero, effective_rate(loan, n_points))

NonNegative(s) ==
    RLe(Zero, s.amount)

\* balance at the start of step k of generator g
StartBalance(g, k) ==
    IF k = 1 THEN loan.loan_amount ELSE out[g][k - 1].state.loan_amount

\* balance after step k (k = 0: before the first step)
BalanceAfter(g, k) ==
    IF k = 0 THEN loan.loan_amount ELSE out[g][k].state.loan_amount

\* interest of step k: starting balance times the monthly effective rate
StepInterest(g, k) ==
    RMul(StartBalance(g, k),
         RDiv(effective_rate(loan, n_points), Whole(MonthsPerYear * PercentScale)))

\* base + extra of step k, before any clamp
StepDue(g, k) ==
    RAdd(base_payment(loan, n_points),
         overpayment_strategy(strategy[g], [loan EXCEPT !.loan_amount = StartBalance(g, k)]))

RECURSIVE PrincipalPaid(_, _)
PrincipalPaid(g, k) ==
    IF k = 0 THEN Zero
    ELSE RAdd(PrincipalPaid(g, k - 1), RSub(out[g][k].payment, StepInterest(g, k)))

RECURSIVE PaidSoFar(_, _)
PaidSoFar(g, k) ==
    IF k = 0 THEN Zero ELSE RAdd(PaidSoFar(g, k - 1), out[g][k].payment)

Steps(g) ==
    1..Len(out[g])

\* the loan can be amortized: base_payment is defined
Amortizable ==
    /\ PositiveRate
    /\ n_payments(loan) >= 1

(***************************************************************************)
(* C1: for a positive effective rate and payments that exceed each         *)
(* period's interest, with no strategy or a non-negative one, no yielded   *)
(* state has a negative loan_amount and the last one is at most 0.10.      *)
(***************************************************************************)
C1_NeverNegative ==
    \A g \in Gens :
        ( /\ Amortizable
          /\ NonNegative(strategy[g])
          /\ \A k \in Steps(g) : RLt(StepInterest(g, k), out[g][k].payment) )
        => /\ \A k \in Steps(g) : RLe(Zero, out[g][k].state.loan_amount)
           /\ (pc[g] = "done" /\ out[g] # <<>>)
                 => RLe(out[g][Len(out[g])].state.loan_amount, Threshold)

(***************************************************************************)
(* C2: in a step whose principal (base + extra) - interest exceeds the     *)
(* remaining loan_amount, the emitted payment is exactly the remaining     *)
(* loan_amount plus that step's interest.                                  *)
(***************************************************************************)
C2_ClampedPayment ==
    \A g \in Gens : \A k \in Steps(g) :
        RLt(StartBalance(g, k), RSub(StepDue(g, k), StepInterest(g, k)))
        => out[g][k].payment = RAdd(StartBalance(g, k), StepInterest(g, k))

(***************************************************************************)
(* C3: for a positive effective rate, n_payments >= 1 and no strategy or a *)
(* non-negative one, the remaining loan_amount strictly decreases at every *)
(* step and the generator eventually stops, with the loan_amount no longer *)
(* above 0.10.                                                             *)
(***************************************************************************)
C3_Case(g) ==
    /\ Amortizable
    /\ NonNegative(strategy[g])

C4_BalanceConservation ==
    \A g \in Gens : \A k \in 0..Len(out[g]) :
        PrincipalPaid(g, k) = RSub(loan.loan_amount, BalanceAfter(g, k))

C4_Witness ==
    \E g \in Gens :
        /\ pc[g] = "done"
        /\ Len(out[g]) >= 2
        /\ strategy[g].kind = "const"
        /\ RLt(Zero, strategy[g].amount)

(***************************************************************************)
(* C5: a strictly positive constant strategy and the zero baseline on the  *)
(* same loan and points.  As claimed: strictly fewer steps.  As amended:   *)
(* never more steps.                                                       *)
(***************************************************************************)
C5_Case ==
    /\ PositiveRate
    /\ RLt(Threshold, loan.loan_amount)
    /\ strategy[1].kind = "const"
    /\ RLt(Zero, strategy[1].amount)
    /\ pc[1] = "done"
    /\ pc[2] = "done"

C5_StrictlyFewerSteps ==
    C5_Case => Len(out[1]) < Len(out[2])

C5_NeverMoreSteps ==
    ( /\ PositiveRate
      /\ RLt(Threshold, loan.loan_amount)
      /\ strategy[1].kind = "const"
      /\ RLt(Zero, strategy[1].amount)
      /\ pc[2] = "done" )
    => Len(out[1]) <= Len(out[2])

C5_Witness ==
    /\ C5_Case
    /\ Len(out[1]) < Len(out[2])

(***************************************************************************)
(* C6: a strategy that always returns zero and no strategy yield the same  *)
(* sequence: the same payment and loan_amount at each position, and the    *)
(* same number of steps.                                                   *)
(***************************************************************************)
C6_Case ==
    /\ strategy[1] = ConstStrategy(Zero)
    /\ strategy[2] = NoStrategy

C6_ZeroIsNone ==
    C6_Case
    => /\ \A k \in Steps(1) \cap Steps(2) :
             /\ out[1][k].payment = out[2][k].payment
             /\ out[1][k].state.loan_amount = out[2][k].state.loan_amount
       /\ pc[1] = "done" => Len(out[2]) <= Len(out[1])
       /\ pc[2] = "done" => Len(out[1]) <= Len(out[2])
       /\ pc[1] = "raised" => pc[2] # "done" /\ out[2] = <<>>
       /\ pc[2] = "raised" => pc[1] # "done" /\ out[1] = <<>>

C6_Witness ==
    /\ C6_Case
    /\ pc[1] = "done"
    /\ pc[2] = "done"
    /\ Len(out[1]) >= 2

(***************************************************************************)
(* C7: total_cost returns down_payment + actual_closing_costs + the sum of *)
(* the payments of the schedule with the same arguments, and the number of *)
(* elements of that schedule; 0 months and no payments when it is empty.   *)
(***************************************************************************)
C7_TotalCost ==
    tcpc = "returned"
    => /\ pc[1] = "done"
            => tcResult = <<RAdd(RAdd(RSub(loan.home_value, loan.loan_amount),
                                      actual_closing_costs(loan, n_points)),
                                 PaidSoFar(1, Len(out[1]))),
                            Len(out[1])>>
       /\ Len(out[1]) <= tcResult[2]
       /\ pc[1] # "raised"
       /\ ~RLt(Threshold, loan.loan_amount)
            => tcResult = <<RAdd(RSub(loan.home_value, loan.loan_amount),
                                 actual_closing_costs(loan, n_points)), 0>>

C7_Witness ==
    /\ tcpc = "returned"
    /\ pc[1] = "done"
    /\ Len(out[1]) >= 2
    /\ n_points # Zero

(***************************************************************************)
(* C8: every yielded state differs from the original loan in loan_amount   *)
(* only, and no step changes the original loan.                            *)
(***************************************************************************)
SameButAmount(a, b) ==
    /\ a.home_value = b.home_value
    /\ a.duration = b.duration
    /\ a.base_rate = b.base_rate
    /\ a.base_closing_costs = b.base_closing_costs
    /\ a.cost_per_point = b.cost_per_point
    /\ a.rate_reduction_per_point = b.rate_reduction_per_point

C8_Frame ==
    [][ /\ loan' = loan
        /\ \A g \in Gens : \A k \in 1..Len(out'[g]) :
              SameButAmount(out'[g][k].state, loan) ]_vars

C8_Witness ==
    \E g \in Gens :
        /\ Len(out[g]) >= 2
        /\ out[g][2].state.loan_amount # loan.loan_amount
        /\ pc[g] = "yielded"

(***************************************************************************)
(* C9: a constant base + extra that does not exceed the first period's     *)
(* interest, on a loan above 0.10 with a positive rate: no error, the      *)
(* loan_amount never decreases and stays above 0.10, the generator never   *)
(* stops and goes on yielding.                                             *)
(***************************************************************************)
C9_Case(g) ==
    /\ Amortizable
    /\ RLt(Threshold, loan.loan_amount)
    /\ strategy[g].kind \in {"none", "const"}
    /\ RLe(RAdd(base_payment(loan, n_points), strategy[g].amount),
           RMul(loan.loan_amount,
                RDiv(effective_rate(loan, n_points), Whole(MonthsPerYear * PercentScale))))

C9_NeverFinishes ==
    /\ [](\A g \in Gens :
            C9_Case(g)
            => /\ pc[g] \notin {"done", "raised"}
               /\ \A k \in Steps(g) :
                     /\ RLe(BalanceAfter(g, k - 1), BalanceAfter(g, k))
                     /\ RLt(Threshold, BalanceAfter(g, k)))
    /\ \A g \in Gens : C9_Case(g) ~> (Len(out[g]) = StepCap)

C9_Witness ==
    \E g \in Gens :
        /\ C9_Case(g)
        /\ Len(out[g]) = StepCap

(***************************************************************************)
(* C10: for a positive rate, a non-negative constant strategy never makes  *)
(* the sum of all payments larger than the schedule without a strategy.    *)
(***************************************************************************)
C10_NeverPaysMore ==
    ( /\ PositiveRate
      /\ strategy[1].kind = "const"
      /\ NonNegative(strategy[1])
      /\ pc[1] = "done"
      /\ pc[2] = "done" )
    => RLe(PaidSoFar(1, Len(out[1])), PaidSoFar(2, Len(out[2])))

====
